---------------------------- MODULE Spec2Model ----------------------------
(***************************************************************************)
(* A model of the import front end of vtk-widget-demo:                     *)
(*   - src/actions/loadUserFiles.ts : the primary-selection heuristic      *)
(*     (findBaseDicom, findBaseImage, findBaseDataSource) and the batch    *)
(*     driver loadDataSources with its loading-state wrapper;              *)
(*   - importSingleFile (the single-file import handler);                  *)
(*   - src/io/zip.ts : extractFilesFromZip.                                *)
(*                                                                         *)
(* Optional JavaScript values are sequences of length at most one:        *)
(* <<>> is undefined, <<x>> is x.  Strings that the code takes apart       *)
(* (file names, the segment-group extension) are sequences of characters.  *)
(***************************************************************************)
EXTENDS Integers, Sequences, FiniteSets, TLC

VARIABLES
    \* ---- findBaseDataSource (the heuristic applied to one input) ----
    succeeded,              \* Array<PipelineResultSuccess<ImportResult>>
    volumeInfo,             \* dicomStore.volumeInfo : dataID -> optional info
    segmentGroupExtension,  \* loadDataStore.segmentGroupExtension
    fpc,                    \* "idle" | "ready" | "done"
    found,                  \* optional result of findBaseDataSource
    \* ---- loadDataSources (one batch after another) ----
    lpc,                    \* "idle" | "importing" | "loaded" | "done"
    results,                \* what importDataSources resolved with
    outcome,                \* "pending" | "resolved" | "rejected"
    primarySelection,       \* dataStore.primarySelection (optional)
    priorSelection,         \* primarySelection as load() read it (history)
    calls,                  \* the collaborator calls of the current batch
    batches,                \* batches started so far
    \* ---- importSingleFile (one invocation per branch) ----
    FILE_READERS,           \* the file types a reader is registered for
    ipc,                    \* branch -> "idle" | "reading" | "returned" | "done" | "thrown"
    idataSource,            \* branch -> the DataSource the handler was given
    dataObject,             \* branch -> optional decoded object
    ireturned,              \* branch -> optional value the handler returned
    doneCalls,              \* branch -> the arguments of its calls of done
    readerCalls,            \* branch -> the files handed to a reader
    imageStore,             \* dataID -> name of the registered image
    fileStore,              \* dataID -> the DataSources filed under it
    storeWrites,            \* the store calls made so far, with the caller
    \* ---- extractFilesFromZip (one call) ----
    zpc,                    \* "loading" | "extracting" | "resolved" | "loadRejected" | "rejected"
    zipEntries,             \* the archive's entries, in enumeration order
    promises,               \* the per-entry blob promises
    paths,                  \* the archive paths pushed beside them
    completionOrder,        \* promise indices, in the order they fulfilled
    zipOut                  \* what the call resolved with

findVars == <<succeeded, fpc, found>>
storeVars == <<volumeInfo, segmentGroupExtension>>
loadVars == <<lpc, results, outcome, primarySelection, priorSelection, calls, batches>>

importVars == <<FILE_READERS, ipc, idataSource, dataObject, ireturned, doneCalls,
                readerCalls, imageStore, fileStore, storeWrites>>
zipVars == <<zpc, zipEntries, promises, paths, completionOrder, zipOut>>

vars == <<findVars, storeVars, loadVars, importVars, zipVars>>

None == <<>>
Some(x) == <<x>>

\* A finite set of indices as an increasing sequence: Array.prototype.filter
\* keeps the order of what it keeps.
RECURSIVE Ascending(_)
Ascending(S) ==
    IF S = {} THEN <<>>
    ELSE LET m == CHOOSE x \in S : \A y \in S : x <= y
         IN  <<m>> \o Ascending(S \ {m})

RECURSIVE Flatten(_)
Flatten(ss) == IF ss = <<>> THEN <<>> ELSE Head(ss) \o Flatten(Tail(ss))

--------------------------------------------------------------------------
(* loadUserFiles.ts : the primary-selection heuristic *)

\* higher value priority is preferred for picking a primary selection
BASE_MODALITY_TYPES == [CT |-> 3, MR |-> 3, US |-> 2, DX |-> 1]

\* JavaScript truthiness of an optional number: undefined and 0 are falsy.
Falsy(n) == n = None \/ n = Some(0)

\* The comparator with the slice counts compared the other way round.
DicomCompare_FewerSlicesFirst(a, b) ==
    LET priorityDiff == a.priority - b.priority
    IN  IF priorityDiff # 0 THEN priorityDiff
        ELSE IF a.volumeInfo.NumberOfSlices = <<>> THEN 1
        ELSE IF b.volumeInfo.NumberOfSlices = <<>> THEN -1
        ELSE a.volumeInfo.NumberOfSlices[1] - b.volumeInfo.NumberOfSlices[1]

\* The comparator handed to Array.prototype.sort (negative: a before b).
\* a and b are candidates [dicomSource, priority, volumeInfo].
DicomCompare(a, b) ==
    LET priorityDiff == a.priority - b.priority
    IN  IF priorityDiff # 0 THEN priorityDiff
        ELSE IF Falsy(a.volumeInfo.NumberOfSlices) THEN 1
        ELSE IF Falsy(b.volumeInfo.NumberOfSlices) THEN -1
        ELSE b.volumeInfo.NumberOfSlices[1] - a.volumeInfo.NumberOfSlices[1]

\* Array.prototype.sort(comparefn): the orders a sort may produce.  Where the
\* comparator is consistent the order is the stable sorted one; a pair on
\* which the comparator contradicts itself (both orders "greater") is left
\* in an implementation-defined order.  An element may come next when no
\* remaining element is consistently before it or tied with it from an
\* earlier position.
SortOutcomes(s) ==
    LET MayPrecede(i, j) ==
            /\ ~(DicomCompare(s[i], s[j]) > 0 /\ DicomCompare(s[j], s[i]) < 0)
            /\ (DicomCompare(s[i], s[j]) = 0 /\ DicomCompare(s[j], s[i]) = 0) => i < j
        RECURSIVE Orders(_)
        Orders(I) ==
            IF I = {} THEN { <<>> }
            ELSE UNION { { <<i>> \o o : o \in Orders(I \ {i}) } :
                           i \in { x \in I : \A j \in I \ {x} : MayPrecede(x, j) } }
    IN  { [k \in 1..Len(s) |-> s[p[k]]] : p \in Orders(1..Len(s)) }

\* The modality lookup of one dicom result: the candidate, or nothing when
\* the modality is not a key of BASE_MODALITY_TYPES.
DicomCandidate(info, dicomSource) ==
    IF info # None /\ info[1].Modality \in DOMAIN BASE_MODALITY_TYPES
    THEN Some([dicomSource |-> dicomSource,
               priority |-> BASE_MODALITY_TYPES[info[1].Modality],
               volumeInfo |-> info[1]])
    ELSE None

\* dicoms.map(...).filter(nonNullable), before the sort.
BaseDicomCandidates(info, loadableDataSources) ==
    LET dicoms == Ascending({ i \in 1..Len(loadableDataSources) :
                                loadableDataSources[i].dataType = "dicom" })
    IN  Flatten([k \in 1..Len(dicoms) |->
                    DicomCandidate(info[loadableDataSources[dicoms[k]].dataID],
                                   loadableDataSources[dicoms[k]])])

\* findBaseDicom: the set of values it may return (one per sort outcome).
findBaseDicom(info, loadableDataSources) ==
    LET cands == BaseDicomCandidates(info, loadableDataSources)
    IN  { IF Len(baseDicomVolumes) > 0
          THEN Some(baseDicomVolumes[1].dicomSource) ELSE None :
            baseDicomVolumes \in SortOutcomes(cands) }

\* String.prototype.split('.') on a sequence of characters.
RECURSIVE SplitFrom(_, _)
SplitFrom(s, cur) ==
    IF s = <<>> THEN <<cur>>
    ELSE IF Head(s) = "." THEN <<cur>> \o SplitFrom(Tail(s), <<>>)
    ELSE SplitFrom(Tail(s), Append(cur, Head(s)))

split(name) == SplitFrom(name, <<>>)

\* isSegmentation without slice(1): the leading token counts too.
isSegmentation_LeadingToken(extension, name) ==
    IF extension = <<>> THEN FALSE
    ELSE LET extensions == SplitFrom(name, <<>>)
         IN  \E i \in DOMAIN extensions : extensions[i] = extension

isSegmentation(extension, name) ==
    IF extension = <<>> THEN FALSE
    ELSE LET extensions == Tail(split(name))
         IN  \E i \in DOMAIN extensions : extensions[i] = extension

\* getDataSourceName: the display name of a DataSource (<<>> when it has none).
getDataSourceName(dataSource) == dataSource.name

\* does not pick segmentation images
findBaseImage(loadableDataSources, extension) ==
    LET Keep(r) == /\ r.dataType = "image"
                   /\ getDataSourceName(r.dataSource) # <<>>
                   /\ ~isSegmentation(extension, getDataSourceName(r.dataSource))
        baseImages == Ascending({ i \in 1..Len(loadableDataSources) :
                                    Keep(loadableDataSources[i]) })
    IN  IF Len(baseImages) > 0 THEN Some(loadableDataSources[baseImages[1]])
        ELSE None

isLoadableResult(r) == r.dataType \in {"image", "dicom"}

\* The flattening without its filter: every result is kept.
filterLoadableDataSources_Unfiltered(succ) ==
    LET RECURSIVE Cat(_)
        Cat(ss) == IF ss = <<>> THEN <<>> ELSE Head(ss).data \o Cat(Tail(ss))
    IN  Cat(succ)

\* returns image and dicom sources, no config files
filterLoadableDataSources(succ) ==
    Flatten([k \in 1..Len(succ) |->
        LET data == succ[k].data
            idx == Ascending({ i \in 1..Len(data) : isLoadableResult(data[i]) })
        IN  [j \in 1..Len(idx) |-> data[idx[j]]]])

\* findBaseDataSource: the set of values it may return.
findBaseDataSource(info, succ, extension) ==
    LET loadableDataSources == filterLoadableDataSources(succ)
        baseImage == findBaseImage(loadableDataSources, extension)
    IN  { IF baseDicom # None THEN baseDicom
          ELSE IF baseImage # None THEN baseImage
          ELSE IF Len(loadableDataSources) > 0
               THEN Some(loadableDataSources[1]) ELSE None :
            baseDicom \in findBaseDicom(info, loadableDataSources) }

--------------------------------------------------------------------------
(* The heuristic applied to one input: inputs drawn by Init, one action. *)

MaxResults == 3      \* ImportResults in one input
MaxSucceeded == 2    \* succeeded PipelineResults in one input

\* NumberOfSlices of a volume the dicom store knows: a volume is built from
\* at least one slice, so a count that is present is positive.
SliceCounts == {10, 20}

\* File names: brain.nii, brain.seg.nii, seg.nii, brain..nii
ImageNames ==
    { <<"b", ".", "n">>, <<"b", ".", "s", ".", "n">>, <<"s", ".", "n">>,
      <<"b", ".", ".", "n">> }

Extensions == { <<>>, <<"s">> }

Info(m, n) == Some([Modality |-> m, NumberOfSlices |-> n])

ImageKinds == [dataType : {"image"}, name : ImageNames, info : {None}]
ModelKinds == [dataType : {"model"}, name : {<<"m">>}, info : {None}]
DicomKinds ==
    [dataType : {"dicom"}, name : {<<>>},
     info : {None} \cup { Info(m, n) : m \in {"CT", "MR", "US", "DX", "OT"},
                                       n \in {None} \cup {Some(c) : c \in SliceCounts} }]

SeqsUpTo(S, n) == UNION { [1..m -> S] : m \in 0..n }

RECURSIVE Sum(_)
Sum(g) == IF g = <<>> THEN 0 ELSE Head(g) + Sum(Tail(g))

\* The ways to hand n results out to at most MaxSucceeded PipelineResults
\* (a PipelineResult may hold none).
Groupings(n) == { g \in SeqsUpTo(0..n, MaxSucceeded) : Sum(g) = n }

ResultOf(ks, i) ==
    [dataID |-> i, dataType |-> ks[i].dataType, dataSource |-> [name |-> ks[i].name]]

SucceededOf(ks, g) ==
    [k \in 1..Len(g) |->
        [data |-> [j \in 1..g[k] |-> ResultOf(ks, Sum(SubSeq(g, 1, k - 1)) + j)]]]

LoadIdle ==
    /\ lpc = "idle"
    /\ results = <<>>
    /\ outcome = "pending"
    /\ primarySelection = None
    /\ priorSelection = None
    /\ calls = <<>>
    /\ batches = 0

ImportIdle ==
    /\ FILE_READERS = {}
    /\ ipc = <<>> /\ idataSource = <<>> /\ dataObject = <<>> /\ ireturned = <<>>
    /\ doneCalls = <<>> /\ readerCalls = <<>>
    /\ imageStore = <<>> /\ fileStore = <<>> /\ storeWrites = <<>>

ZipIdle ==
    /\ zpc = "idle" /\ zipEntries = <<>> /\ promises = <<>> /\ paths = <<>>
    /\ completionOrder = <<>> /\ zipOut = <<>>

FindIdle == succeeded = <<>> /\ fpc = "idle" /\ found = None

StoreIdle == volumeInfo = <<>> /\ segmentGroupExtension = <<>>

\* All n results in one PipelineResult.
OneGroup(n) == { <<n>> }

\* nested: the results are handed out in every way; otherwise in one group.
InitFindFrom(Kinds, Exts, nested) ==
    /\ LoadIdle /\ ImportIdle /\ ZipIdle
    /\ \E ks \in SeqsUpTo(Kinds, MaxResults) :
         /\ \E g \in (IF nested THEN Groupings(Len(ks)) ELSE OneGroup(Len(ks))) :
              succeeded = SucceededOf(ks, g)
         /\ volumeInfo = [i \in 1..Len(ks) |-> ks[i].info]
    /\ segmentGroupExtension \in Exts
    /\ fpc = "ready"
    /\ found = None

\* Mixed inputs: every image name, a recognised dicom, an unrecognised
\* dicom, a dicom the store has no info for, and a model.
FindKinds ==
    ImageKinds \cup ModelKinds \cup
    { d \in DicomKinds : d.info \in {None, Info("CT", Some(10)), Info("OT", Some(10))} }

\* Dicom-heavy inputs: every modality and slice count, one image, one model.
DicomHeavyKinds ==
    DicomKinds \cup ModelKinds \cup { i \in ImageKinds : i.name = <<"b", ".", "n">> }

InitFind == InitFindFrom(FindKinds, Extensions, TRUE)

InitDicom == InitFindFrom(DicomHeavyKinds, {<<"s">>}, FALSE)

FindBase ==
    /\ fpc = "ready"
    /\ \E r \in findBaseDataSource(volumeInfo, succeeded, segmentGroupExtension) :
         found' = r
    /\ fpc' = "done"
    /\ UNCHANGED <<succeeded, storeVars, loadVars, importVars, zipVars>>

NextFind == FindBase

SpecFind == InitFind /\ [][NextFind]_vars

SpecDicom == InitDicom /\ [][NextFind]_vars

--------------------------------------------------------------------------
(* Properties of the heuristic, stated over the input as given. *)

\* Every ImportResult of the input, in original order.
AllResults == Flatten([k \in 1..Len(succeeded) |-> succeeded[k].data])

IsLoadable(r) == r.dataType = "image" \/ r.dataType = "dicom"

LoadableSet == { r \in {AllResults[i] : i \in 1..Len(AllResults)} : IsLoadable(r) }

\* The priority table of the specification.
TablePriority(m) ==
    CASE m = "CT" -> 3 [] m = "MR" -> 3 [] m = "US" -> 2 [] m = "DX" -> 1

InTable(r) ==
    /\ r.dataType = "dicom"
    /\ volumeInfo[r.dataID] # None
    /\ volumeInfo[r.dataID][1].Modality \in {"CT", "MR", "US", "DX"}

Candidates == { r \in LoadableSet : InTable(r) }

PriorityOf(r) == TablePriority(volumeInfo[r.dataID][1].Modality)

HasSlices(r) == volumeInfo[r.dataID][1].NumberOfSlices # None

SlicesOf(r) == volumeInfo[r.dataID][1].NumberOfSlices[1]

\* C1: whenever the input holds a dicom result whose modality is in the
\* priority table, the result returned is such a result and its priority is
\* the maximum among them (so DX and US give US); a dicom result outside the
\* table is never returned as a candidate.
C1_MaxPriorityWins ==
    (fpc = "done" /\ Candidates # {}) =>
        /\ found # None
        /\ found[1] \in Candidates
        /\ \A c \in Candidates : PriorityOf(found[1]) >= PriorityOf(c)

\* C5: the returned candidate has the largest slice count among the
\* candidates of its own priority, and lacks a slice count only if every
\* candidate of that priority lacks one, whatever the input order.
C5_SliceCountBreaksTies ==
    (fpc = "done" /\ Candidates # {}) =>
        /\ found # None
        /\ found[1] \in Candidates
        /\ \A c \in Candidates :
             (PriorityOf(c) = PriorityOf(found[1]) /\ HasSlices(c)) =>
                 /\ HasSlices(found[1])
                 /\ SlicesOf(found[1]) >= SlicesOf(c)

\* CT with 10 slices first, MR with 20 slices second, and a third candidate
\* of the same priority without a slice count: MR was returned.
C5_Witness ==
    /\ fpc = "done"
    /\ Len(AllResults) = 3
    /\ volumeInfo[AllResults[1].dataID] = Info("CT", None)
    /\ volumeInfo[AllResults[2].dataID] = Info("CT", Some(10))
    /\ volumeInfo[AllResults[3].dataID] = Info("MR", Some(20))
    /\ found = Some(AllResults[3])

\* A name is a segmentation name when the extension is non-empty and stands
\* between a dot and the next dot or the end of the name.
SegmentationName(ext, name) ==
    /\ ext # <<>>
    /\ \A k \in 1..Len(ext) : ext[k] # "."
    /\ \E i \in 1..Len(name) :
         /\ name[i] = "."
         /\ i + Len(ext) <= Len(name)
         /\ SubSeq(name, i + 1, i + Len(ext)) = ext
         /\ (i + Len(ext) = Len(name) \/ name[i + Len(ext) + 1] = ".")

BaseImageIdx ==
    { i \in 1..Len(AllResults) :
        /\ AllResults[i].dataType = "image"
        /\ ~SegmentationName(segmentGroupExtension, AllResults[i].dataSource.name) }

\* C6: with no dicom candidate, the first image in original order whose name
\* is not a segmentation name is returned; with an empty extension no image
\* is excluded.
C6_FirstNonSegmentationImage ==
    (fpc = "done" /\ Candidates = {} /\ BaseImageIdx # {}) =>
        /\ found # None
        /\ \E i \in BaseImageIdx :
             /\ \A j \in BaseImageIdx : i <= j
             /\ found[1] = AllResults[i]

\* brain.seg.nii comes first, brain.nii second, extension "seg": brain.nii.
C6_Witness ==
    /\ fpc = "done"
    /\ Candidates = {}
    /\ segmentGroupExtension = <<"s">>
    /\ Len(AllResults) >= 2
    /\ AllResults[1].dataType = "image"
    /\ AllResults[1].dataSource.name = <<"b", ".", "s", ".", "n">>
    /\ AllResults[2].dataType = "image"
    /\ AllResults[2].dataSource.name = <<"b", ".", "n">>
    /\ found = Some(AllResults[2])

\* The first loadable result: the first one of the first succeeded
\* PipelineResult that holds any.
FirstLoadable ==
    LET holds == { k \in 1..Len(succeeded) :
                     \E j \in 1..Len(succeeded[k].data) : IsLoadable(succeeded[k].data[j]) }
        k0 == CHOOSE k \in holds : \A k2 \in holds : k <= k2
        in0 == { j \in 1..Len(succeeded[k0].data) : IsLoadable(succeeded[k0].data[j]) }
        j0 == CHOOSE j \in in0 : \A j2 \in in0 : j <= j2
    IN  succeeded[k0].data[j0]

--------------------------------------------------------------------------
(* loadUserFiles.ts : loadDataSources and its loading-state wrapper *)

\* load() runs from the settling of importDataSources to its end without
\* suspending, so batches touch one another only through
\* dataStore.primarySelection; they are taken one after another.
MaxInputs == 2       \* top-level DataSources in one batch
MaxBatches == 2      \* calls of loadFiles

\* partitionResults: [succeeded, errored], each in input order.
partitionResults(res) ==
    LET s == Ascending({ i \in 1..Len(res) : res[i].ok })
        e == Ascending({ i \in 1..Len(res) : ~res[i].ok })
    IN  << [k \in 1..Len(s) |-> res[s[k]]], [k \in 1..Len(e) |-> res[e[k]]] >>

isVolumeResult(p) == p # None /\ p[1].dataType \in {"image", "dicom"}

toDataSelection(r) == [type |-> r.dataType, dataID |-> r.dataID]

\* A template literal renders a missing name as the text "undefined".
Rendered(name) == IF name = <<>> THEN <<"undefined">> ELSE name

\* The entry naming the top-level input instead of the innermost file.
ErrorEntry_TopLevelName(errResult) ==
    LET firstError == errResult.errors[1]
        trace == firstError.inputDataStackTrace
    IN  <<"- ", Rendered(trace[Len(trace)].name), ": ", firstError.message>>

\* `- ${name}: ${firstError.message}` for one errored result.
ErrorEntry(errResult) ==
    LET firstError == errResult.errors[1]
        name == getDataSourceName(firstError.inputDataStackTrace[1])
    IN  <<"- ", Rendered(name), ": ", firstError.message>>

\* The message of failedError, as its lines (the pieces that '\n' joins).
FailedMessage(errored) ==
    << <<"These files failed to load:">> >> \o
    [k \in 1..Len(errored) |-> ErrorEntry(errored[k])]

\* The primary-selection step skipped as soon as a branch has failed.
SelectionCalls_OnlyCleanBatches(res, info) ==
    LET succ == partitionResults(res)[1]
    IN  IF primarySelection = None /\ Len(succ) > 0 /\ Len(partitionResults(res)[2]) = 0
        THEN { IF isVolumeResult(primaryDataSource)
               THEN << [op |-> "setPrimarySelection",
                        arg |-> toDataSelection(primaryDataSource[1])] >>
               ELSE <<>> :
                 primaryDataSource \in
                     findBaseDataSource(info, succ, segmentGroupExtension) }
        ELSE { <<>> }

\* Lines 129-145: the calls the primary-selection step may make (one
\* sequence per outcome of the heuristic).
SelectionCalls(res, info) ==
    LET succ == partitionResults(res)[1]
    IN  IF primarySelection = None /\ Len(succ) > 0
        THEN { IF isVolumeResult(primaryDataSource)
               THEN << [op |-> "setPrimarySelection",
                        arg |-> toDataSelection(primaryDataSource[1])] >>
               ELSE <<>> :
                 primaryDataSource \in
                     findBaseDataSource(info, succ, segmentGroupExtension) }
        ELSE { <<>> }

\* Lines 147-162: the calls the error-reporting step makes.
ErrorCalls(res) ==
    LET errored == partitionResults(res)[2]
    IN  IF Len(errored) > 0
        THEN << [op |-> "setError", arg |-> FailedMessage(errored)] >>
        ELSE <<>>

\* What importDataSources may resolve with, per top-level input: successes
\* by the kinds of their ImportResults, failures by their error records.
Kind(t, name, info) == [dataType |-> t, name |-> name, info |-> info]

Trace(names) == [k \in 1..Len(names) |-> [name |-> names[k]]]

ErrorRecord(m, names) ==
    [message |-> m, cause |-> m, inputDataStackTrace |-> Trace(names)]

LoadInputs ==
    { [ok |-> TRUE, data |-> d] : d \in
        { <<>>,
          << Kind("image", <<"b", ".", "n">>, None) >>,
          << Kind("image", <<"b", ".", "s", ".", "n">>, None) >>,
          << Kind("dicom", <<>>, Info("CT", Some(10))),
             Kind("dicom", <<>>, Info("DX", Some(20))) >>,
          << Kind("model", <<"m">>, None) >> } }
    \cup
    { [ok |-> FALSE, errors |-> e] : e \in
        { << ErrorRecord("m1", << <<"f">> >>) >>,
          << ErrorRecord("m2", << <<"g">>, <<"z">> >>),
             ErrorRecord("m1", << <<"z">> >>) >>,
          << ErrorRecord("m3", << <<"h">>, <<"y">>, <<"z">> >>) >> } }

\* The PipelineResults of batch b for inputs ks, with fresh dataIDs.
ResultsOf(b, ks) ==
    [k \in 1..Len(ks) |->
        IF ks[k].ok
        THEN [ok |-> TRUE,
              data |-> [j \in 1..Len(ks[k].data) |->
                          [dataID |-> <<b, k, j>>,
                           dataType |-> ks[k].data[j].dataType,
                           dataSource |-> [name |-> ks[k].data[j].name]]]]
        ELSE ks[k]]

\* The dicom store's entries for the results of batch b.
VolumeInfoOf(b, ks) ==
    LET ids == UNION { { <<b, k, j>> : j \in 1..Len(ks[k].data) } :
                         k \in { n \in 1..Len(ks) : ks[n].ok } }
    IN  [id \in ids |-> ks[id[2]].data[id[3]].info]

InitLoad ==
    /\ LoadIdle /\ FindIdle /\ ImportIdle /\ ZipIdle
    /\ volumeInfo = <<>>
    /\ segmentGroupExtension \in Extensions

\* wrapper(): startLoading(), then load() up to its await of
\* importDataSources(sources).
LoadFiles ==
    /\ lpc \in {"idle", "done"}
    /\ batches < MaxBatches
    /\ batches' = batches + 1
    /\ calls' = << [op |-> "startLoading"], [op |-> "importDataSources"] >>
    /\ lpc' = "importing"
    /\ outcome' = "pending"
    /\ results' = <<>>
    /\ UNCHANGED <<primarySelection, priorSelection, findVars, storeVars,
                   importVars, zipVars>>

\* importDataSources rejects: the catch block of load().
ImportReject ==
    /\ lpc = "importing"
    /\ outcome' = "rejected"
    /\ calls' = Append(calls, [op |-> "setError", arg |-> "thrown"])
    /\ lpc' = "loaded"
    /\ UNCHANGED <<results, primarySelection, priorSelection, batches,
                   findVars, storeVars, importVars, zipVars>>

\* importDataSources resolves: the rest of load(), run to its end.
ImportResolve ==
    /\ lpc = "importing"
    /\ \E ks \in SeqsUpTo(LoadInputs, MaxInputs) :
         LET res == ResultsOf(batches, ks)
             info == VolumeInfoOf(batches, ks)
         IN  /\ results' = res
             /\ volumeInfo' = info
             /\ \E sel \in SelectionCalls(res, info) :
                  /\ calls' = calls \o sel \o ErrorCalls(res)
                  /\ primarySelection' =
                        IF sel = <<>> THEN primarySelection ELSE Some(sel[1].arg)
    /\ priorSelection' = primarySelection
    /\ outcome' = "resolved"
    /\ lpc' = "loaded"
    /\ UNCHANGED <<batches, segmentGroupExtension, findVars, importVars, zipVars>>

\* stopLoading placed after the await instead of in a finally block: a
\* batch whose load() ended in the catch block is left without it.
StopLoading_NotInFinally ==
    /\ lpc = "loaded"
    /\ calls' = IF outcome = "resolved"
                THEN Append(calls, [op |-> "stopLoading"]) ELSE calls
    /\ lpc' = "done"
    /\ UNCHANGED <<results, outcome, primarySelection, priorSelection, batches,
                   findVars, storeVars, importVars, zipVars>>

\* The wrapper's finally block, once load() has settled.
StopLoading ==
    /\ lpc = "loaded"
    /\ calls' = Append(calls, [op |-> "stopLoading"])
    /\ lpc' = "done"
    /\ UNCHANGED <<results, outcome, primarySelection, priorSelection, batches,
                   findVars, storeVars, importVars, zipVars>>

NextLoad == LoadFiles \/ ImportReject \/ ImportResolve \/ StopLoading

SpecLoad == InitLoad /\ [][NextLoad]_vars

--------------------------------------------------------------------------
(* Properties of one batch, stated over its results and its calls. *)

CallsOf(op) == { i \in 1..Len(calls) : calls[i].op = op }

Settled == lpc \in {"loaded", "done"}

ErroredIdx == { k \in 1..Len(results) : ~results[k].ok }

\* The loadable results of the succeeded branches of the batch.
BatchLoadables ==
    UNION { { results[k].data[j] : j \in 1..Len(results[k].data) } :
              k \in { n \in 1..Len(results) : results[n].ok } }
    \cap { r \in UNION { { results[k].data[j] : j \in 1..Len(results[k].data) } :
                           k \in { n \in 1..Len(results) : results[n].ok } } :
             IsLoadable(r) }

SelectionOf(r) == [type |-> r.dataType, dataID |-> r.dataID]

SelectsFromBatch ==
    /\ Cardinality(CallsOf("setPrimarySelection")) = 1
    /\ \A i \in CallsOf("setPrimarySelection") :
         /\ \E r \in BatchLoadables : calls[i].arg = SelectionOf(r)
         /\ \E p \in findBaseDataSource(volumeInfo, partitionResults(results)[1],
                                        segmentGroupExtension) :
              p # None /\ calls[i].arg = SelectionOf(p[1])
    /\ ErroredIdx # {} => CallsOf("setError") # {}

\* C2 as stated: a batch with a successful loadable result always gets its
\* primary selection set from the heuristic, failed branches or not.
C2_AlwaysSelects ==
    (Settled /\ outcome = "resolved" /\ BatchLoadables # {}) => SelectsFromBatch

\* C2 amended: a batch with a successful loadable result, processed while no
\* primary selection exists, gets exactly one setPrimarySelection with the
\* heuristic's result, failed branches or not (and setError as well when a
\* branch failed); while a primary selection exists, none is set.
C2_SelectsUnlessSelected ==
    (Settled /\ outcome = "resolved") =>
        /\ (BatchLoadables # {} /\ priorSelection = None) => SelectsFromBatch
        /\ priorSelection # None =>
              /\ CallsOf("setPrimarySelection") = {}
              /\ primarySelection = priorSelection

\* The first branch failed, the second loaded a volume: both calls happened.
C2_Witness ==
    /\ lpc = "done" /\ outcome = "resolved"
    /\ priorSelection = None
    /\ Len(results) = 2
    /\ ~results[1].ok /\ results[2].ok
    /\ BatchLoadables # {}
    /\ CallsOf("setPrimarySelection") # {}
    /\ CallsOf("setError") # {}

\* One "- <name>: <message>" entry per errored result, in input order, from
\* its first error record and the innermost DataSource of that record.
Entries ==
    LET e == Ascending(ErroredIdx)
    IN  [k \in 1..Len(e) |->
            <<"- ", results[e[k]].errors[1].inputDataStackTrace[1].name, ": ",
              results[e[k]].errors[1].message>>]

SetErrorOnceWith(message) ==
    /\ Cardinality(CallsOf("setError")) = 1
    /\ \A i \in CallsOf("setError") : calls[i].arg = message

\* C3 as stated: with E >= 1 errored results setError is called once and the
\* message is the list of the E entries; with none it is not called.
C3_MessageIsEntryList ==
    (Settled /\ outcome = "resolved") =>
        IF ErroredIdx # {} THEN SetErrorOnceWith(Entries)
        ELSE CallsOf("setError") = {}

\* C3 amended: the message is the line "These files failed to load:"
\* followed by the E entries.
C3_MessageIsHeaderThenEntries ==
    (Settled /\ outcome = "resolved") =>
        IF ErroredIdx # {}
        THEN SetErrorOnceWith(<< <<"These files failed to load:">> >> \o Entries)
        ELSE CallsOf("setError") = {}

\* Two errored inputs, the first failing two archive levels down.
C3_Witness ==
    /\ lpc = "done" /\ outcome = "resolved"
    /\ Len(results) = 2
    /\ ErroredIdx = {1, 2}
    /\ Len(results[1].errors[1].inputDataStackTrace) = 3
    /\ Len(results[2].errors) = 2
    /\ \E i \in CallsOf("setError") :
         /\ Len(calls[i].arg) = 3
         /\ calls[i].arg[2] = <<"- ", <<"h">>, ": ", "m3">>
         /\ calls[i].arg[3] = <<"- ", <<"g">>, ": ", "m2">>

\* C4: startLoading is the first call of a batch and happens once, before
\* importDataSources is started; stopLoading happens once and is the last
\* call, after every setPrimarySelection and setError, on every path; when
\* importDataSources rejects, setError gets the thrown error, nothing is
\* selected, and stopLoading still follows.
C4_LoadingBrackets ==
    /\ lpc = "idle" => calls = <<>>
    /\ lpc # "idle" =>
          /\ Len(calls) >= 2
          /\ CallsOf("startLoading") = {1}
          /\ CallsOf("importDataSources") = {2}
    /\ lpc \in {"importing", "loaded"} => CallsOf("stopLoading") = {}
    /\ lpc = "done" => CallsOf("stopLoading") = {Len(calls)}
    /\ outcome = "rejected" =>
          /\ Len(calls) >= 3
          /\ calls[3] = [op |-> "setError", arg |-> "thrown"]
          /\ CallsOf("setError") = {3}
          /\ CallsOf("setPrimarySelection") = {}
          /\ results = <<>>

\* A second batch whose importDataSources rejected, closed by stopLoading.
C4_Witness ==
    /\ lpc = "done"
    /\ batches = 2
    /\ outcome = "rejected"
    /\ calls = << [op |-> "startLoading"], [op |-> "importDataSources"],
                  [op |-> "setError", arg |-> "thrown"], [op |-> "stopLoading"] >>

--------------------------------------------------------------------------
(* importSingleFile : the single-file import handler *)

MaxBranches == 2     \* handler invocations in flight

Branches == 1..MaxBranches

FileTypes == {"nii", "vtp", "zip"}

\* The DataSources a handler may be given: one without fileSrc, and files
\* of each type.
DataSources ==
    { [fileSrc |-> None, uri |-> "u"] } \cup
    { [fileSrc |-> Some([fileType |-> ft, file |-> [name |-> n]])] :
        ft \in FileTypes, n \in {"f", "g"} }

\* What a reader may decode to: an object with the classes it isA.
DecodedObjects ==
    { [classes |-> {"vtkObject", "vtkDataSet", "vtkImageData"}],
      [classes |-> {"vtkObject", "vtkDataSet", "vtkPolyData"}] }

isA(obj, className) == className \in obj.classes

\* useImageStore().addVTKImageData(name, image): a fresh dataID.
NewImageID == Cardinality(DOMAIN imageStore) + 1

SetAt(f, k, v) == [x \in DOMAIN f \cup {k} |-> IF x = k THEN v ELSE f[x]]

InitImport ==
    /\ LoadIdle /\ FindIdle /\ StoreIdle /\ ZipIdle
    /\ FILE_READERS \in SUBSET {"nii", "vtp"}
    /\ ipc = [b \in Branches |-> "idle"]
    /\ idataSource = [b \in Branches |-> None]
    /\ dataObject = [b \in Branches |-> None]
    /\ ireturned = [b \in Branches |-> None]
    /\ doneCalls = [b \in Branches |-> <<>>]
    /\ readerCalls = [b \in Branches |-> <<>>]
    /\ imageStore = <<>>
    /\ fileStore = <<>>
    /\ storeWrites = <<>>

\* The handler throwing when it has no reader for the file.
StartImport_ThrowsWithoutReader(b, dataSource) ==
    /\ idataSource' = [idataSource EXCEPT ![b] = Some(dataSource)]
    /\ IF dataSource.fileSrc = None
          \/ dataSource.fileSrc[1].fileType \notin FILE_READERS
       THEN /\ ipc' = [ipc EXCEPT ![b] = "thrown"]
            /\ UNCHANGED <<readerCalls, ireturned>>
       ELSE /\ readerCalls' =
                 [readerCalls EXCEPT ![b] = Append(@, dataSource.fileSrc[1].file)]
            /\ ipc' = [ipc EXCEPT ![b] = "reading"]
            /\ UNCHANGED ireturned
    /\ UNCHANGED <<FILE_READERS, dataObject, doneCalls, imageStore, fileStore,
                   storeWrites>>

\* Lines 147-158: up to the await of the reader.
StartImport(b, dataSource) ==
    /\ idataSource' = [idataSource EXCEPT ![b] = Some(dataSource)]
    /\ IF dataSource.fileSrc = None
       THEN /\ ireturned' = [ireturned EXCEPT ![b] = Some(dataSource)]
            /\ ipc' = [ipc EXCEPT ![b] = "returned"]
            /\ UNCHANGED readerCalls
       ELSE IF dataSource.fileSrc[1].fileType \notin FILE_READERS
       THEN /\ ireturned' = [ireturned EXCEPT ![b] = Some(dataSource)]
            /\ ipc' = [ipc EXCEPT ![b] = "returned"]
            /\ UNCHANGED readerCalls
       ELSE /\ readerCalls' =
                 [readerCalls EXCEPT ![b] = Append(@, dataSource.fileSrc[1].file)]
            /\ ipc' = [ipc EXCEPT ![b] = "reading"]
            /\ UNCHANGED ireturned
    /\ UNCHANGED <<FILE_READERS, dataObject, doneCalls, imageStore, fileStore,
                   storeWrites>>

\* The handler registering whatever the reader produced before it looks at
\* the object's kind.
FinishImport_RegistersFirst(b, obj) ==
    LET dataSource == idataSource[b][1]
        dataID == NewImageID
    IN  /\ dataObject' = [dataObject EXCEPT ![b] = Some(obj)]
        /\ imageStore' = SetAt(imageStore, dataID, dataSource.fileSrc[1].file.name)
        /\ fileStore' = SetAt(fileStore, dataID, <<dataSource>>)
        /\ storeWrites' = storeWrites \o
               << [store |-> "image", by |-> b, dataID |-> dataID],
                  [store |-> "file", by |-> b, dataID |-> dataID] >>
        /\ IF isA(obj, "vtkImageData")
           THEN /\ doneCalls' = [doneCalls EXCEPT ![b] =
                       Append(@, << [dataID |-> dataID, dataSource |-> dataSource,
                                     dataType |-> "image"] >>)]
                /\ ipc' = [ipc EXCEPT ![b] = "done"]
           ELSE /\ ipc' = [ipc EXCEPT ![b] = "thrown"]
                /\ UNCHANGED doneCalls
        /\ UNCHANGED <<FILE_READERS, idataSource, ireturned, readerCalls>>

\* Lines 158-195: from the reader's result to done or the throw.
FinishImport(b, obj) ==
    LET dataSource == idataSource[b][1]
        dataID == NewImageID
    IN  /\ dataObject' = [dataObject EXCEPT ![b] = Some(obj)]
        /\ IF isA(obj, "vtkImageData")
           THEN /\ imageStore' = SetAt(imageStore, dataID, dataSource.fileSrc[1].file.name)
                /\ fileStore' = SetAt(fileStore, dataID, <<dataSource>>)
                /\ storeWrites' = storeWrites \o
                       << [store |-> "image", by |-> b, dataID |-> dataID],
                          [store |-> "file", by |-> b, dataID |-> dataID] >>
                /\ doneCalls' = [doneCalls EXCEPT ![b] =
                       Append(@, << [dataID |-> dataID, dataSource |-> dataSource,
                                     dataType |-> "image"] >>)]
                /\ ipc' = [ipc EXCEPT ![b] = "done"]
           ELSE /\ ipc' = [ipc EXCEPT ![b] = "thrown"]
                /\ UNCHANGED <<imageStore, fileStore, storeWrites, doneCalls>>
        /\ UNCHANGED <<FILE_READERS, idataSource, ireturned, readerCalls>>

ImportSingleFile(b) ==
    /\ ipc[b] = "idle"
    /\ \E dataSource \in DataSources : StartImport(b, dataSource)
    /\ UNCHANGED <<findVars, storeVars, loadVars, zipVars>>

ReaderResolves(b) ==
    /\ ipc[b] = "reading"
    /\ \E obj \in DecodedObjects : FinishImport(b, obj)
    /\ UNCHANGED <<findVars, storeVars, loadVars, zipVars>>

\* The reader's promise rejects: the await throws out of the handler.
ReaderRejects(b) ==
    /\ ipc[b] = "reading"
    /\ ipc' = [ipc EXCEPT ![b] = "thrown"]
    /\ UNCHANGED <<FILE_READERS, idataSource, dataObject, ireturned, doneCalls,
                   readerCalls, imageStore, fileStore, storeWrites>>
    /\ UNCHANGED <<findVars, storeVars, loadVars, zipVars>>

NextImport ==
    \/ \E b \in Branches : ImportSingleFile(b)
    \/ \E b \in Branches : ReaderResolves(b)
    \/ \E b \in Branches : ReaderRejects(b)

SpecImport == InitImport /\ [][NextImport]_vars

--------------------------------------------------------------------------
(* Properties of one handler invocation, stated over the calls it made. *)

WritesBy(b, store) ==
    { k \in 1..Len(storeWrites) : storeWrites[k].by = b /\ storeWrites[k].store = store }

\* C8: once a registered reader has decoded the file, an image is
\* registered with the image store exactly once and done is called exactly
\* once, with the one result {that dataID, the same DataSource, 'image'};
\* any other object makes the handler throw with done never called and
\* neither store written to.
C8_ImageDoneElseThrow ==
    \A b \in DOMAIN dataObject : dataObject[b] # None =>
        IF "vtkImageData" \in dataObject[b][1].classes
        THEN /\ ipc[b] = "done"
             /\ Cardinality(WritesBy(b, "image")) = 1
             /\ Len(doneCalls[b]) = 1
             /\ \E k \in WritesBy(b, "image") :
                  /\ storeWrites[k].dataID \in DOMAIN imageStore
                  /\ doneCalls[b][1] =
                        << [dataID |-> storeWrites[k].dataID,
                            dataSource |-> idataSource[b][1],
                            dataType |-> "image"] >>
        ELSE /\ ipc[b] = "thrown"
             /\ doneCalls[b] = <<>>
             /\ WritesBy(b, "image") = {}
             /\ WritesBy(b, "file") = {}

\* One branch imported an image while the other's reader produced poly data.
C8_Witness ==
    /\ ipc = <<"thrown", "done">> \o [k \in 1..(Len(ipc) - 2) |-> "idle"]
    /\ dataObject[1] # None /\ "vtkPolyData" \in dataObject[1][1].classes
    /\ dataObject[2] # None /\ "vtkImageData" \in dataObject[2][1].classes
    /\ Len(doneCalls[2]) = 1

\* C9: a DataSource without fileSrc, or of a file type no reader is
\* registered for, is returned as it is: done is not called, nothing is
\* thrown, no reader is invoked and no store is written to.
C9_PassThrough ==
    \A b \in DOMAIN idataSource : idataSource[b] # None =>
        LET ds == idataSource[b][1]
        IN  (ds.fileSrc = None \/ ds.fileSrc[1].fileType \notin FILE_READERS) =>
                /\ ipc[b] = "returned"
                /\ ireturned[b] = Some(ds)
                /\ doneCalls[b] = <<>>
                /\ readerCalls[b] = <<>>
                /\ dataObject[b] = None
                /\ WritesBy(b, "image") = {}
                /\ WritesBy(b, "file") = {}

\* One branch was given a DataSource without fileSrc, the other a file no
\* reader is registered for; both were handed back.
C9_Witness ==
    /\ ipc[1] = "returned" /\ ipc[2] = "returned"
    /\ idataSource[1][1].fileSrc = None
    /\ idataSource[2][1].fileSrc # None
    /\ ireturned[2] = idataSource[2]
    /\ "nii" \in FILE_READERS

--------------------------------------------------------------------------
(* zip.ts : extractFilesFromZip *)

MaxEntries == 3      \* entries of the archive

\* Entry names as JSZip gives them: a/ separated path, directories with a
\* trailing slash.  a, d/a, d/b, d/e/a, and the directories d/ and d/e/.
ZipEntryPool ==
    { [name |-> <<"a">>, dir |-> FALSE],
      [name |-> <<"d", "/", "a">>, dir |-> FALSE],
      [name |-> <<"d", "/", "b">>, dir |-> FALSE],
      [name |-> <<"d", "/", "e", "/", "a">>, dir |-> FALSE],
      [name |-> <<"d", "/">>, dir |-> TRUE],
      [name |-> <<"d", "/", "e", "/">>, dir |-> TRUE] }

\* The position of the last slash of a path (0 when it has none).
LastSlash(path) ==
    LET at == { i \in 1..Len(path) : path[i] = "/" }
    IN  IF at = {} THEN 0 ELSE CHOOSE i \in at : \A j \in at : j <= i

basename(path) == SubSeq(path, LastSlash(path) + 1, Len(path))

dirname(path) == SubSeq(path, 1, LastSlash(path) - 1)

\* zip.file(name): the entry of that name when it is a file.
ZipFile(entries, name) ==
    LET hit == { i \in 1..Len(entries) : entries[i].name = name /\ ~entries[i].dir }
    IN  IF hit = {} THEN None ELSE Some(entries[CHOOSE i \in hit : TRUE])

\* zip.forEach(...): the promises and paths pushed, entry by entry.
RECURSIVE ForEachEntry(_, _, _)
ForEachEntry(entries, k, acc) ==
    IF k > Len(entries) THEN acc
    ELSE LET file == entries[k]
             fileName == basename(file.name)
             path == dirname(file.name)
             fileEntry == ZipFile(entries, file.name)
         IN  IF ~file.dir /\ fileEntry # None
             THEN ForEachEntry(entries, k + 1,
                      [promises |-> Append(acc.promises,
                                        [fileName |-> fileName, value |-> None]),
                       paths |-> Append(acc.paths, path)])
             ELSE ForEachEntry(entries, k + 1, acc)

\* Promise.all(promises): the fulfilment values in completion order, a slip
\* for the order of the promises.
PromiseAll_CompletionOrder(ps) ==
    [k \in 1..Len(ps) |-> ps[completionOrder[k]].value[1]]

\* Promise.all(promises): the fulfilment values, in the order of the promises.
PromiseAll(ps) == [k \in 1..Len(ps) |-> ps[k].value[1]]

InitZip ==
    /\ LoadIdle /\ FindIdle /\ StoreIdle /\ ImportIdle
    /\ zipEntries \in { s \in SeqsUpTo(ZipEntryPool, MaxEntries) :
                          \A i, j \in 1..Len(s) : s[i] = s[j] => i = j }
    /\ zpc = "loading"
    /\ promises = <<>>
    /\ paths = <<>>
    /\ completionOrder = <<>>
    /\ zipOut = <<>>

\* JSZip.loadAsync resolves: the forEach runs, and Promise.all is awaited.
ZipLoaded ==
    /\ zpc = "loading"
    /\ LET built == ForEachEntry(zipEntries, 1, [promises |-> <<>>, paths |-> <<>>])
       IN  /\ promises' = built.promises
           /\ paths' = built.paths
    /\ zpc' = "extracting"
    /\ UNCHANGED <<zipEntries, completionOrder, zipOut>>
    /\ UNCHANGED <<findVars, storeVars, loadVars, importVars>>

\* JSZip.loadAsync rejects: the archive cannot be opened.
ZipLoadFails ==
    /\ zpc = "loading"
    /\ zpc' = "loadRejected"
    /\ UNCHANGED <<zipEntries, promises, paths, completionOrder, zipOut>>
    /\ UNCHANGED <<findVars, storeVars, loadVars, importVars>>

\* One entry's async('blob') fulfils: its then makes the File.
BlobFulfils(k) ==
    /\ zpc = "extracting"
    /\ promises[k].value = None
    /\ promises' = [promises EXCEPT ![k].value = Some([name |-> promises[k].fileName])]
    /\ completionOrder' = Append(completionOrder, k)
    /\ UNCHANGED <<zpc, zipEntries, paths, zipOut>>
    /\ UNCHANGED <<findVars, storeVars, loadVars, importVars>>

\* One entry's async('blob') rejects: Promise.all rejects with it.
BlobRejects(k) ==
    /\ zpc = "extracting"
    /\ promises[k].value = None
    /\ zpc' = "rejected"
    /\ UNCHANGED <<zipEntries, promises, paths, completionOrder, zipOut>>
    /\ UNCHANGED <<findVars, storeVars, loadVars, importVars>>

\* Every promise has fulfilled: the then of Promise.all pairs file and path.
ZipResolves ==
    /\ zpc = "extracting"
    /\ \A k \in 1..Len(promises) : promises[k].value # None
    /\ LET files == PromiseAll(promises)
       IN  zipOut' = [index \in 1..Len(files) |->
                        [file |-> files[index], archivePath |-> paths[index]]]
    /\ zpc' = "resolved"
    /\ UNCHANGED <<zipEntries, promises, paths, completionOrder>>
    /\ UNCHANGED <<findVars, storeVars, loadVars, importVars>>

NextZip ==
    \/ ZipLoaded
    \/ ZipLoadFails
    \/ \E k \in DOMAIN promises : BlobFulfils(k)
    \/ \E k \in DOMAIN promises : BlobRejects(k)
    \/ ZipResolves

SpecZip == InitZip /\ [][NextZip]_vars

--------------------------------------------------------------------------
(* Properties of one extraction, stated over the archive and the output. *)

FileEntryIdx == Ascending({ i \in 1..Len(zipEntries) : ~zipEntries[i].dir })

\* file name and archive path are the last segment of the entry's path and
\* the directory before it (empty at the root of the archive).
SplitsPath(path, dir, base) ==
    /\ \A i \in 1..Len(base) : base[i] # "/"
    /\ IF \E i \in 1..Len(path) : path[i] = "/"
       THEN path = dir \o <<"/">> \o base
       ELSE dir = <<>> /\ base = path

\* C10: the call resolves with one entry per non-directory entry of the
\* archive, in the archive's order, the i-th naming the i-th such entry's
\* basename and directory, in whatever order the blobs completed; with no
\* file entries it resolves with the empty list and cannot fail once the
\* archive is open.
C10_OneOutputPerFileInOrder ==
    /\ zpc = "resolved" =>
          /\ Len(zipOut) = Len(FileEntryIdx)
          /\ \A i \in 1..Len(zipOut) :
               SplitsPath(zipEntries[FileEntryIdx[i]].name,
                          zipOut[i].archivePath, zipOut[i].file.name)
    /\ zpc = "rejected" => FileEntryIdx # <<>>
    /\ (zpc = "extracting" /\ FileEntryIdx = <<>>) => promises = <<>>

\* a, the directory d/ and d/a, with d/a's blob completing before a's: the
\* two files of the same name keep their own paths.
C10_Witness ==
    /\ zpc = "resolved"
    /\ Len(zipEntries) = 3
    /\ zipEntries[1].name = <<"a">>
    /\ zipEntries[2].dir
    /\ zipEntries[3].name = <<"d", "/", "a">>
    /\ completionOrder = <<2, 1>>
    /\ zipOut = << [file |-> [name |-> <<"a">>], archivePath |-> <<>>],
                   [file |-> [name |-> <<"a">>], archivePath |-> <<"d">>] >>

\* An archive of directories only resolved with the empty list.
C10_WitnessEmpty ==
    /\ zpc = "resolved"
    /\ Len(zipEntries) = 2
    /\ FileEntryIdx = <<>>
    /\ zipOut = <<>>

==========================================================================
